---- MODULE Spec2Model ----
(***************************************************************************)
(* Model of .github/scripts/mermaid-to-png.mjs: the batch driver `main`   *)
(* and the per-file step `renderOne`.  Each step of the two async         *)
(* functions that can succeed or throw (glob, read, render, rasterize,    *)
(* mkdir, write) is one action per outcome; the synchronous code that     *)
(* follows a step up to the next one belongs to the action of that step.  *)
(*                                                                         *)
(* Strings that the program takes apart (file names, the diagram id) are  *)
(* sequences of one-character strings.  A path is a record                *)
(* [dir |-> sequence of directory names from the root, name |-> basename].*)
(***************************************************************************)
EXTENDS Integers, Sequences, FiniteSets, TLC

\* ---------------------------------------------------------------- bounds
\* Largest number of files the File Locator returns in one run.
MaxFiles == 2

\* ------------------------------------------------------------ characters
Lower == {"a","b","c","d","e","f","g","h","i","j","k","l","m",
          "n","o","p","q","r","s","t","u","v","w","x","y","z"}

Upper == {"A","B","C","D","E","F","G","H","I","J","K","L","M",
          "N","O","P","Q","R","S","T","U","V","W","X","Y","Z"}

Digit == {"0","1","2","3","4","5","6","7","8","9"}

\* \w of a JavaScript regular expression: [A-Za-z0-9_]
IsWord(c) == c \in Lower \cup Upper \cup Digit \cup {"_"}

\* case folding done by the /i flag, on the letters file names here use
ToLower(c) ==
  CASE c = "M" -> "m"
    [] c = "D" -> "d"
    [] c = "T" -> "t"
    [] c = "X" -> "x"
    [] c = "E" -> "e"
    [] c = "R" -> "r"
    [] c = "I" -> "i"
    [] c = "A" -> "a"
    [] c = "P" -> "p"
    [] c = "N" -> "n"
    [] c = "G" -> "g"
    [] OTHER -> c

LowerSeq(s) == [k \in 1..Len(s) |-> ToLower(s[k])]

EndsWith(s, suf) ==
  /\ Len(s) >= Len(suf)
  /\ SubSeq(s, Len(s) - Len(suf) + 1, Len(s)) = suf

DropLast(s, n) == SubSeq(s, 1, Len(s) - n)

\* ------------------------------------------------------- pure functions
\* s.replace(/\W+/g, "_"): every maximal run of non-word characters
\* becomes one underscore.
RECURSIVE ReplaceRuns(_, _)
ReplaceRuns(s, inRun) ==
  IF s = <<>> THEN <<>>
  ELSE IF IsWord(Head(s)) THEN <<Head(s)>> \o ReplaceRuns(Tail(s), FALSE)
  ELSE IF inRun THEN ReplaceRuns(Tail(s), TRUE)
  ELSE <<"_">> \o ReplaceRuns(Tail(s), TRUE)

ReplaceNonWord(s) == ReplaceRuns(s, FALSE)

\* String(n) of a non-negative integer
RECURSIVE ToDigits(_)
ToDigits(n) ==
  LET d == CASE n % 10 = 0 -> "0" [] n % 10 = 1 -> "1" [] n % 10 = 2 -> "2"
             [] n % 10 = 3 -> "3" [] n % 10 = 4 -> "4" [] n % 10 = 5 -> "5"
             [] n % 10 = 6 -> "6" [] n % 10 = 7 -> "7" [] n % 10 = 8 -> "8"
             [] OTHER -> "9"
  IN IF n < 10 THEN <<d>> ELSE ToDigits(n \div 10) \o <<d>>

\* path.basename of an absolute, normalised file path
Basename(p) == p.name

\* `mmd_${path.basename(mmdPath).replace(/\W+/g, "_")}_${Date.now()}`
MakeId(p, t) ==
  <<"m","m","d","_">> \o ReplaceNonWord(Basename(p)) \o <<"_">> \o ToDigits(t)

SourceExts == { <<".","m","m","d">>,
                <<".","m","e","r","m","a","i","d">>,
                <<".","t","x","t">> }

PngExt == <<".","p","n","g">>

\* path.basename(mmdPath).replace(/\.(mmd|mermaid|txt)$/i, ".png")
OutName(p) ==
  LET n == Basename(p)
      hits == { e \in SourceExts : EndsWith(LowerSeq(n), e) }
  IN IF hits = {} THEN n
     ELSE LET e == CHOOSE x \in hits : TRUE
          IN DropLast(n, Len(e)) \o PngExt

\* ----------------------------------------------------------- environment
Cwd == <<"w">>

\* values of the OUTPUT_DIR environment variable that are tried
OutputDirs == { [abs |-> FALSE, comps |-> <<"diagrams">>],
                [abs |-> FALSE, comps |-> <<"out","png">>],
                [abs |-> TRUE,  comps |-> <<"w","diagrams","sub">>] }

\* path.resolve(OUTPUT_DIR)
Resolve(o) == IF o.abs THEN o.comps ELSE Cwd \o o.comps

Prefixes(d) == { SubSeq(d, 1, k) : k \in 0..Len(d) }

D1 == <<"w","diagrams">>

D2 == <<"w","diagrams","sub">>

\* the diagram sources on disk before the run
Universe ==
  { [dir |-> D1, name |-> <<"a",".","m","m","d">>],
    [dir |-> D2, name |-> <<"a",".","m","m","d">>],
    [dir |-> D1, name |-> <<"a",".","T","X","T">>],
    [dir |-> D1, name |-> <<"a",".","m","d">>],
    [dir |-> D1, name |-> <<"a","-","b",".","m","m","d">>],
    [dir |-> D1, name |-> <<"a","+","+","b",".","m","m","d">>] }

NoPath == [dir |-> <<>>, name |-> <<>>]

NoData == [kind |-> "none", of |-> NoPath]

\* file contents: a diagram source, or what was derived from one
Src(p) == [kind |-> "src", of |-> p]

InitFs == [p \in Universe |-> Src(p)]

InitDirs == Prefixes(D1) \cup Prefixes(D2)

\* what fast-glob may return: distinct absolute paths of existing files
SeqsNoDup(S, n) ==
  UNION { { s \in [1..k -> S] : \A a, b \in 1..k : a # b => s[a] # s[b] }
          : k \in 0..n }

\* ------------------------------------------------------------- the state
VARIABLES
  pc,          \* where main / renderOne is suspended
  matched,     \* what the File Locator will return for INPUT_PATTERN
  OUTPUT_DIR,  \* the environment variable
  files,       \* main: files
  i,           \* main: index of the file the for-of loop is on
  ok,          \* main: ok
  fail,        \* main: fail
  console,     \* lines written with console.log / console.error
  exitCode,    \* exit status of the process
  fs,          \* regular files on disk: path -> content
  dirs,        \* directories on disk
  now,         \* last value returned by Date.now()
  code,        \* renderOne: code
  svg,         \* renderOne: svg
  pngData,     \* renderOne: pngData
  outPath,     \* renderOne: outPath
  calls,       \* history: arguments of the renderOne invocations
  ids,         \* history: ids passed to mermaid.render
  writes,      \* history: completed fs.writeFile calls
  fsAtCall,    \* history: fs when the current renderOne was invoked
  dirsAtCall   \* history: dirs when the current renderOne was invoked

vars == << pc, matched, OUTPUT_DIR, files, i, ok, fail, console, exitCode,
           fs, dirs, now, code, svg, pngData, outPath, calls, ids, writes,
           fsAtCall, dirsAtCall >>

locals == << code, svg, pngData, outPath >>

disk == << fs, dirs >>

history == << calls, ids, writes, fsAtCall, dirsAtCall >>

Line(kind, file, out, err, a, b) ==
  [kind |-> kind, file |-> file, out |-> out, err |-> err, ok |-> a, fail |-> b]

Init ==
  /\ pc = "glob"
  /\ matched \in SeqsNoDup(Universe, MaxFiles)
  /\ OUTPUT_DIR \in OutputDirs
  /\ files = <<>>
  /\ i = 0
  /\ ok = 0
  /\ fail = 0
  /\ console = <<>>
  /\ exitCode = 0
  /\ fs = InitFs
  /\ dirs = InitDirs
  /\ now = 0
  /\ code = NoData
  /\ svg = NoData
  /\ pngData = NoData
  /\ outPath = NoPath
  /\ calls = <<>>
  /\ ids = <<>>
  /\ writes = <<>>
  /\ fsAtCall = InitFs
  /\ dirsAtCall = InitDirs

\* ------------------------------------------------------------ main, glob
\* main().catch(e => { console.error(e); process.exit(1) })
Fatal(err) ==
  /\ console' = Append(console, Line("fatal", NoPath, NoPath, err, 0, 0))
  /\ exitCode' = 1
  /\ pc' = "exited"

\* await fg([INPUT_PATTERN], ...) rejects
GlobFail ==
  /\ pc = "glob"
  /\ Fatal("glob")
  /\ UNCHANGED << matched, OUTPUT_DIR, files, i, ok, fail, disk, now,
                  locals, history >>

\* GlobEmpty without the `return`: falls through to the banner and the loop
GlobEmpty_NoReturn ==
  /\ pc = "glob"
  /\ matched = <<>>
  /\ files' = matched
  /\ console' = console \o
                  << Line("nomatch", NoPath, NoPath, "", 0, 0),
                     Line("rendering", NoPath, NoPath, "", 0, 0) >>
  /\ pc' = "loop"
  /\ UNCHANGED << matched, OUTPUT_DIR, i, ok, fail, exitCode, disk, now,
                  locals, history >>

\* fg resolves with no file: the message, then return
GlobEmpty ==
  /\ pc = "glob"
  /\ matched = <<>>
  /\ files' = matched
  /\ console' = Append(console, Line("nomatch", NoPath, NoPath, "", 0, 0))
  /\ pc' = "exited"
  /\ UNCHANGED << matched, OUTPUT_DIR, i, ok, fail, exitCode, disk, now,
                  locals, history >>

\* fg resolves with files: the banner, ok = 0, fail = 0
GlobSome ==
  /\ pc = "glob"
  /\ matched # <<>>
  /\ files' = matched
  /\ console' = Append(console,
                       Line("rendering", NoPath, NoPath, "", Len(matched), 0))
  /\ ok' = 0
  /\ fail' = 0
  /\ pc' = "loop"
  /\ UNCHANGED << matched, OUTPUT_DIR, i, exitCode, disk, now, locals,
                  history >>

\* ------------------------------------------------------------- main, loop
\* LoopNext that tries a file again when its last attempt failed
LoopNext_Reattempt ==
  /\ pc = "loop"
  /\ LET retry == /\ i > 0
                  /\ console[Len(console)].kind = "fail"
                  /\ Len(calls) = i
     IN /\ retry \/ i < Len(files)
        /\ i' = IF retry THEN i ELSE i + 1
        /\ calls' = Append(calls, files[i'])
  /\ fsAtCall' = fs
  /\ dirsAtCall' = dirs
  /\ pc' = "read"
  /\ UNCHANGED << matched, OUTPUT_DIR, files, ok, fail, console, exitCode,
                  disk, now, locals, ids, writes >>

\* for (const f of files) { try { const out = await renderOne(f); ...
LoopNext ==
  /\ pc = "loop"
  /\ i < Len(files)
  /\ i' = i + 1
  /\ calls' = Append(calls, files[i + 1])
  /\ fsAtCall' = fs
  /\ dirsAtCall' = dirs
  /\ pc' = "read"
  /\ UNCHANGED << matched, OUTPUT_DIR, files, ok, fail, console, exitCode,
                  disk, now, locals, ids, writes >>

\* Summary that turns a failed file into a failing exit status
Summary_ExitOnFail ==
  /\ pc = "loop"
  /\ i = Len(files)
  /\ console' = Append(console, Line("done", NoPath, NoPath, "", ok, fail))
  /\ exitCode' = IF fail > 0 THEN 1 ELSE exitCode
  /\ pc' = "exited"
  /\ UNCHANGED << matched, OUTPUT_DIR, files, i, ok, fail, disk,
                  now, locals, history >>

\* console.log(`Done. Success: ${ok}, Failed: ${fail}`), main resolves
Summary ==
  /\ pc = "loop"
  /\ i = Len(files)
  /\ console' = Append(console, Line("done", NoPath, NoPath, "", ok, fail))
  /\ pc' = "exited"
  /\ UNCHANGED << matched, OUTPUT_DIR, files, i, ok, fail, exitCode, disk,
                  now, locals, history >>

\* Catch that logs and throws again: the error leaves main
Catch_Rethrow(err) ==
  /\ console' = console \o
                  << Line("fail", files[i], NoPath, err, 0, 0),
                     Line("fatal", NoPath, NoPath, err, 0, 0) >>
  /\ fail' = fail + 1
  /\ exitCode' = 1
  /\ pc' = "exited"
  /\ code' = NoData
  /\ svg' = NoData
  /\ pngData' = NoData
  /\ outPath' = NoPath
  /\ UNCHANGED ok

\* Catch that bumps the wrong counter
Catch_CountsOk(err) ==
  /\ console' = Append(console, Line("fail", files[i], NoPath, err, 0, 0))
  /\ ok' = ok + 1
  /\ pc' = "loop"
  /\ code' = NoData
  /\ svg' = NoData
  /\ pngData' = NoData
  /\ outPath' = NoPath
  /\ UNCHANGED << fail, exitCode >>

\* } catch (e) { console.error(`Failed: ${f}\n${e.stack}`); fail++; }
Catch(err) ==
  /\ console' = Append(console, Line("fail", files[i], NoPath, err, 0, 0))
  /\ fail' = fail + 1
  /\ pc' = "loop"
  /\ code' = NoData
  /\ svg' = NoData
  /\ pngData' = NoData
  /\ outPath' = NoPath
  /\ UNCHANGED << ok, exitCode >>

\* renderOne returned: console.log(`ok f -> out`); ok++;
Returned(out) ==
  /\ console' = Append(console, Line("ok", files[i], out, "", 0, 0))
  /\ ok' = ok + 1
  /\ pc' = "loop"
  /\ code' = NoData
  /\ svg' = NoData
  /\ pngData' = NoData
  /\ outPath' = NoPath
  /\ UNCHANGED << fail, exitCode >>

\* -------------------------------------------------------------- renderOne
\* code = await fs.readFile(mmdPath, "utf8"); the id; mermaid.render called
ReadOk ==
  /\ pc = "read"
  /\ files[i] \in DOMAIN fs
  /\ \E t \in {now, now + 1} :
       /\ now' = t
       /\ ids' = Append(ids, MakeId(files[i], t))
  /\ code' = fs[files[i]]
  /\ pc' = "render"
  /\ UNCHANGED << matched, OUTPUT_DIR, files, i, ok, fail, console,
                  exitCode, disk, svg, pngData, outPath, calls, writes,
                  fsAtCall, dirsAtCall >>

ReadFail ==
  /\ pc = "read"
  /\ Catch("read")
  /\ UNCHANGED << matched, OUTPUT_DIR, files, i, disk, now, history >>

\* RenderOk with ensureDir hoisted above the rasterization
RenderOk_EnsureDirFirst ==
  /\ pc = "render"
  /\ code.kind = "src"
  /\ svg' = [kind |-> "svg", of |-> code.of]
  /\ dirs' = dirs \cup Prefixes(Resolve(OUTPUT_DIR))
  /\ pc' = "rasterize"
  /\ UNCHANGED << matched, OUTPUT_DIR, files, i, ok, fail, console,
                  exitCode, fs, now, code, pngData, outPath, history >>

\* const { svg } = await mermaid.render(id, code)
RenderOk ==
  /\ pc = "render"
  /\ code.kind = "src"
  /\ svg' = [kind |-> "svg", of |-> code.of]
  /\ pc' = "rasterize"
  /\ UNCHANGED << matched, OUTPUT_DIR, files, i, ok, fail, console,
                  exitCode, disk, now, code, pngData, outPath, history >>

RenderFail ==
  /\ pc = "render"
  /\ Catch("render")
  /\ UNCHANGED << matched, OUTPUT_DIR, files, i, disk, now, history >>

\* new Resvg(svg, ...).render().asPng(); ensureDir called
RasterizeOk ==
  /\ pc = "rasterize"
  /\ pngData' = [kind |-> "png", of |-> svg.of]
  /\ pc' = "mkdir"
  /\ UNCHANGED << matched, OUTPUT_DIR, files, i, ok, fail, console,
                  exitCode, disk, now, code, svg, outPath, history >>

RasterizeFail ==
  /\ pc = "rasterize"
  /\ Catch("rasterize")
  /\ UNCHANGED << matched, OUTPUT_DIR, files, i, disk, now, history >>

\* await ensureDir(outDir); outName, outPath; fs.writeFile called
MkdirOk ==
  /\ pc = "mkdir"
  /\ dirs' = dirs \cup Prefixes(Resolve(OUTPUT_DIR))
  /\ outPath' = [dir |-> Resolve(OUTPUT_DIR), name |-> OutName(files[i])]
  /\ pc' = "write"
  /\ UNCHANGED << matched, OUTPUT_DIR, files, i, ok, fail, console,
                  exitCode, fs, now, code, svg, pngData, history >>

\* MkdirFail handled outside the per-file try
MkdirFail_Fatal ==
  /\ pc = "mkdir"
  /\ console' = console \o
                  << Line("fail", files[i], NoPath, "mkdir", 0, 0),
                     Line("fatal", NoPath, NoPath, "mkdir", 0, 0) >>
  /\ exitCode' = 1
  /\ pc' = "exited"
  /\ UNCHANGED << matched, OUTPUT_DIR, files, i, ok, fail, disk, now,
                  locals, history >>

MkdirFail ==
  /\ pc = "mkdir"
  /\ Catch("mkdir")
  /\ UNCHANGED << matched, OUTPUT_DIR, files, i, disk, now, history >>

WriteFile(p, data) ==
  [q \in DOMAIN fs \cup {p} |-> IF q = p THEN data ELSE fs[q]]

\* await fs.writeFile(outPath, pngData); return outPath
WriteOk ==
  /\ pc = "write"
  /\ fs' = WriteFile(outPath, pngData)
  /\ writes' = Append(writes,
                      [src |-> files[i], path |-> outPath, data |-> pngData])
  /\ Returned(outPath)
  /\ UNCHANGED << matched, OUTPUT_DIR, files, i, dirs, now, calls, ids,
                  fsAtCall, dirsAtCall >>

\* writeFile rejects: the target is untouched or holds a truncated file
WriteFail ==
  /\ pc = "write"
  /\ fs' \in { fs, WriteFile(outPath, [kind |-> "partial", of |-> pngData.of]) }
  /\ Catch("write")
  /\ UNCHANGED << matched, OUTPUT_DIR, files, i, dirs, now, history >>

Next ==
  \/ GlobFail
  \/ GlobEmpty
  \/ GlobSome
  \/ LoopNext
  \/ Summary
  \/ ReadOk
  \/ ReadFail
  \/ RenderOk
  \/ RenderFail
  \/ RasterizeOk
  \/ RasterizeFail
  \/ MkdirOk
  \/ MkdirFail
  \/ WriteOk
  \/ WriteFail

Spec == Init /\ [][Next]_vars

\* ===================================================== vocabulary of claims
Exited == pc = "exited"

\* the File Locator threw: the only line is the fatal one of the glob
GlobFailed == console # <<>> /\ console[1].kind = "fatal"

Located == pc # "glob" /\ ~GlobFailed

InProgress == pc \in {"read", "render", "rasterize", "mkdir", "write"}

OutDir == Resolve(OUTPUT_DIR)

ResultLines == SelectSeq(console, LAMBDA l : l.kind \in {"ok", "fail"})

FailLines == SelectSeq(console, LAMBDA l : l.kind = "fail")

DoneLines == SelectSeq(console, LAMBDA l : l.kind = "done")

FailedFile(f) ==
  \E k \in DOMAIN console : console[k].kind = "fail" /\ console[k].file = f

FailedAt(f, err) ==
  \E k \in DOMAIN console :
     console[k].kind = "fail" /\ console[k].file = f /\ console[k].err = err

\* a writeFile of the PNG of f, to f's output path, completed
Written(f) ==
  \E k \in DOMAIN writes :
     /\ writes[k].src = f
     /\ writes[k].path = [dir |-> OutDir, name |-> OutName(f)]
     /\ writes[k].data = [kind |-> "png", of |-> f]

MkdirFailed ==
  \E k \in DOMAIN console : console[k].kind = "fail" /\ console[k].err = "mkdir"

LastLine == console[Len(console)]

PngsInOutDir == { p \in DOMAIN fs : p.dir = OutDir /\ fs[p].kind = "png" }

\* ================================================================== C1
\* C1 - failure isolation: when a run whose file discovery succeeded has
\* ended, renderOne was invoked on every matched file whatever failed
\* before it, and every file without a failure line had its PNG written.
C1_FailureIsolation ==
  (Exited /\ Located) =>
     /\ calls = files
     /\ \A k \in 1..Len(files) : FailedFile(files[k]) \/ Written(files[k])

\* the first file failed and a later one was still converted
C1_Witness ==
  /\ Exited
  /\ Len(files) >= 2
  /\ FailedFile(files[1])
  /\ ~FailedFile(files[2])
  /\ Written(files[2])

\* ================================================================== C2
\* C2 - one PNG per input: after a run in which all N matched files
\* converted, the output directory holds N PNG files, one for each input.
C2_OnePngPerInput ==
  (Exited /\ Located /\ files # <<>> /\ ok = Len(files)) =>
     /\ Cardinality(PngsInOutDir) = Len(files)
     /\ \A k \in 1..Len(files) :
          \E p \in PngsInOutDir : fs[p] = [kind |-> "png", of |-> files[k]]

\* ================================================================== C3
\* C3 - per-file failures never affect the exit status: once discovery has
\* succeeded the exit status is 0 whatever fails, and a non-zero status
\* comes only from the File Locator throwing, before any file was tried.
C3_ExitStatus ==
  /\ exitCode \in {0, 1}
  /\ Located => exitCode = 0
  /\ exitCode # 0 => (Exited /\ GlobFailed /\ calls = <<>>)

\* a run in which every one of several files failed ended with status 0
C3_Witness ==
  /\ Exited
  /\ Len(files) >= 2
  /\ fail = Len(files)
  /\ LastLine.kind = "done"
  /\ exitCode = 0

\* ================================================================== C4
\* C4 as stated - a failure to create the output directory ends the
\* process with a non-zero exit status.
C4_MkdirIsFatal ==
  (Exited /\ MkdirFailed) => exitCode # 0

\* C4 as amended - a failure to create the output directory is a per-file
\* failure: it is counted in fail, every matched file is still attempted,
\* the summary is printed and the exit status is 0.
C4_MkdirIsPerFile ==
  /\ MkdirFailed => (exitCode = 0 /\ fail >= 1 /\ ~(Exited /\ LastLine.kind = "fatal"))
  /\ (Exited /\ MkdirFailed) =>
        /\ calls = files
        /\ LastLine.kind = "done"
        /\ LastLine.fail >= Len(SelectSeq(console, LAMBDA l : l.err = "mkdir"))

\* the directory could not be created for the first file, the run went on
C4_Witness ==
  /\ Exited
  /\ Len(files) >= 2
  /\ FailedAt(files[1], "mkdir")
  /\ Len(calls) = Len(files)
  /\ exitCode = 0

\* ================================================================== C5
\* C5 - empty input set: when the File Locator returns no file the run has
\* ended with status 0, renderOne was never invoked, no directory was
\* created and no file written, and the only output is the no-match line.
C5_EmptyInput ==
  (Located /\ files = <<>>) =>
     /\ Exited
     /\ exitCode = 0
     /\ calls = <<>>
     /\ writes = <<>>
     /\ fs = InitFs
     /\ dirs = InitDirs
     /\ Len(console) = 1
     /\ console[1].kind = "nomatch"

C5_Witness ==
  /\ Exited
  /\ matched = <<>>
  /\ console # <<>>
  /\ console[1].kind = "nomatch"

\* ================================================================== C6
\* C6 - summary tally: ok + fail is the number of finished files, ok the
\* number of completed PNG writes and fail the number of logged errors;
\* the summary is the last line, printed once, after the last file, and
\* its two counts add up to the number of matched files.
C6_Tally ==
  /\ ok + fail = Len(ResultLines)
  /\ ok + fail = IF InProgress THEN i - 1 ELSE i
  /\ ok = Len(writes)
  /\ fail = Len(FailLines)
  /\ Len(DoneLines) <= 1
  /\ \A k \in DOMAIN console :
        console[k].kind = "done" =>
           /\ k = Len(console)
           /\ Exited
           /\ Len(calls) = Len(files)
           /\ console[k].ok + console[k].fail = Len(files)
           /\ console[k].ok = Len(writes)
           /\ console[k].fail = Len(FailLines)
  /\ (Exited /\ Located /\ files # <<>>) => Len(DoneLines) = 1

\* a summary of one success and one failure
C6_Witness ==
  /\ Exited
  /\ LastLine.kind = "done"
  /\ LastLine.ok = 1
  /\ LastLine.fail = 1

\* ================================================================== C7
\* C7 - a file whose read, render or rasterize step fails leaves the disk
\* as it was when renderOne was invoked on it: no directory, no file.
C7_FailedFileLeavesDisk ==
  /\ pc \in {"read", "render", "rasterize"} =>
        (fs = fsAtCall /\ dirs = dirsAtCall)
  /\ (pc = "loop" /\ i >= 1 /\ LastLine.kind = "fail"
        /\ LastLine.err \in {"read", "render", "rasterize"}) =>
        (fs = fsAtCall /\ dirs = dirsAtCall)

\* rasterization failed in a run whose output directory did not exist
C7_Witness ==
  /\ pc = "loop"
  /\ i >= 1
  /\ LastLine.kind = "fail"
  /\ LastLine.err = "rasterize"
  /\ OutDir \notin InitDirs

\* ================================================================== C8
\* C8 - any two invocations of the renderer in one run get different ids.
C8_UniqueIds ==
  \A j, k \in DOMAIN ids : j # k => ids[j] # ids[k]

\* ================================================================== C9
\* C9 - strictly sequential, exactly-once processing: renderOne has been
\* invoked on exactly the first i matched files, in the File Locator's
\* order, once each; all of them but at most the last have finished, in
\* that order; at the end every matched file has been attempted once.
C9_Sequential ==
  /\ Len(calls) = i
  /\ i <= Len(files)
  /\ \A k \in 1..Len(calls) : calls[k] = files[k]
  /\ Len(ResultLines) = IF InProgress THEN i - 1 ELSE i
  /\ \A k \in 1..Len(ResultLines) : ResultLines[k].file = files[k]
  /\ (Exited /\ Located) => Len(calls) = Len(files)

\* the second file is in progress after the first one failed
C9_Witness ==
  /\ InProgress
  /\ i = 2
  /\ Len(ResultLines) = 1
  /\ ResultLines[1].kind = "fail"

\* ================================================================= C10
\* C10 - inputs are never overwritten: every path written ends in .png and
\* is not a matched input, and every matched file keeps its content.
C10_InputsNeverOverwritten ==
  /\ \A k \in DOMAIN writes :
        /\ EndsWith(writes[k].path.name, PngExt)
        /\ \A m \in 1..Len(files) : writes[k].path # files[m]
  /\ \A m \in 1..Len(files) : fs[files[m]] = InitFs[files[m]]

====
